---- MODULE Spec2Model ----
(***************************************************************************)
(* Room registry, session manager and relay of salpakan-server             *)
(* (src/server.js).  One action per message handler / socket event /       *)
(* timer callback.  Node runs each callback to completion, so every        *)
(* handler is one atomic step.                                             *)
(*                                                                         *)
(* Fields that no handler reads back for a decision modelled here          *)
(* (playerNames, gameStarted) are not part of the state, and neither are   *)
(* the handlers that write only those and lastActivity (handleStartGame,   *)
(* handleUpdateName, handleDeploymentUpdate) or nothing (handleGetRooms).  *)
(* Time is not measured: of room.lastActivity the state keeps whether it   *)
(* is more than the idle threshold old (idleRooms), and a step Age lets    *)
(* that much time pass for one room.                                       *)
(* A message is the set of its (recipient, type, playerId, allReady)       *)
(* records: a connection stored under two player ids of one room gets a    *)
(* broadcast twice in the code and once in sent.                           *)
(***************************************************************************)
EXTENDS Integers, FiniteSets, Sequences, TLC

\* ---------------------------------------------------------------- bounds
\* Largest player id a join may allocate (the while loop of handleJoin is
\* unbounded in the code).
MaxPid == 3
\* Largest number of pending gameEnd timers per room id.
MaxTimers == 1

\* ------------------------------------------------------------- universes
Conns == {"c1", "c2", "c3"}
\* Outcomes of Math.random().toString(36).substring(2, 8).toUpperCase()
RoomIds == {"R1", "R2"}
RoomTypes == {"2player", "3player"}
\* playerId values a client puts in a message: the ids of two seated
\* players and one more
MsgPids == {1, 2, 3}
\* slotNum values a client sends
Slots == {1, 2, 3}
\* ws.roomId before any create/join (undefined)
NoRoom == "none"
\* ws.playerId before any create/join (undefined)
NoPid == 0

VARIABLES rooms, ws, timers, sent, idleRooms

vars == <<rooms, ws, timers, sent, idleRooms>>

\* ------------------------------------------------------------- helpers
Min(S) == CHOOSE x \in S : \A y \in S : x <= y

\* A message handed to ws.send: recipient, type, the playerId field and,
\* for playerReady, the allReady field ("true", "false", or "undefined"
\* when JSON.stringify drops it); "-" where the message has no such field.
Msg(to, type, playerId, allReady) ==
    [to |-> to, type |-> type, playerId |-> playerId, allReady |-> allReady]

\* Map without key k (delete obj[k] / Map.delete(k))
Without(f, k) == [x \in (DOMAIN f) \ {k} |-> f[x]]

\* Map with key k set to v (obj[k] = v / Map.set(k, v))
With(f, k, v) == [x \in (DOMAIN f) \cup {k} |-> IF x = k THEN v ELSE f[x]]

EmptyMap == [x \in {} |-> 0]

\* ws.readyState === WebSocket.OPEN
IsOpen(c) == ws[c].state = "open"

\* broadcastToRoom(roomId, message, excludePlayerId) evaluated on registry rs
broadcastToRoom(rs, roomId, type, playerId, allReady, excludePlayerId) ==
    IF roomId \notin DOMAIN rs THEN {}
    ELSE { Msg(rs[roomId].clients[p], type, playerId, allReady) :
             p \in { q \in DOMAIN rs[roomId].clients :
                       q # excludePlayerId /\ IsOpen(rs[roomId].clients[q]) } }

\* broadcastRoomListUpdate() evaluated on connection table w
broadcastRoomListUpdate(w) ==
    { Msg(c, "roomList", NoPid, "-") :
        c \in { d \in Conns : w[d].state = "open" /\ w[d].roomId = NoRoom } }

\* Object.keys(room.players).find(pid => room.players[pid] === s);
\* integer-like keys enumerate in ascending order; 0 stands for undefined.
SlotPlayer(room, s) ==
    LET ps == { p \in DOMAIN room.players : room.players[p] = s }
    IN IF ps = {} THEN 0 ELSE Min(ps)

Init ==
    /\ rooms = EmptyMap
    /\ ws = [c \in Conns |-> [state |-> "idle", roomId |-> NoRoom, playerId |-> NoPid,
                              isAlive |-> FALSE]]
    /\ timers = [r \in RoomIds |-> 0]
    /\ sent = {}
    /\ idleRooms = {}

\* wss.on('connection')
Connect(c) ==
    /\ ws[c].state = "idle"
    /\ ws' = [ws EXCEPT ![c].state = "open", ![c].isAlive = TRUE]
    /\ sent' = {}
    /\ UNCHANGED <<rooms, timers, idleRooms>>

\* A fresh room object as built by handleCreateRoom
NewRoom(roomType, c) ==
    [roomType |-> roomType,
     players |-> EmptyMap,
     clients |-> With(EmptyMap, 1, c),
     readyStates |-> EmptyMap,
     setupComplete |-> {},
     hostId |-> 1]

\* handleCreateRoom(ws, data); roomId is the outcome of the random id
\* generation, which the code does not compare with the registry.
handleCreateRoom(c, roomType, roomId) ==
    /\ IsOpen(c)
    /\ rooms' = With(rooms, roomId, NewRoom(roomType, c))
    /\ ws' = [ws EXCEPT ![c].roomId = roomId, ![c].playerId = 1, ![c].isAlive = TRUE]
    /\ sent' = {Msg(c, "roomCreated", 1, "-")} \cup broadcastRoomListUpdate(ws')
    /\ idleRooms' = idleRooms \ {roomId}
    /\ UNCHANGED timers

\* let playerId = 1; while (existingIds.includes(playerId)) playerId++;
NextPlayerId(room) ==
    Min({ p \in 1..(Cardinality(DOMAIN room.clients) + 1) : p \notin DOMAIN room.clients })

\* The reconnect test without room.clients.has(ws.playerId) and ws.roomId
IsReconnectNever(c, roomId) == FALSE

\* if (ws.playerId && ws.roomId === roomId && room.clients.has(ws.playerId))
IsReconnect(c, roomId) ==
    /\ ws[c].playerId # NoPid
    /\ ws[c].roomId = roomId
    /\ ws[c].playerId \in DOMAIN rooms[roomId].clients

\* handleJoin(ws, data)
handleJoin(c, roomId) ==
    /\ IsOpen(c)
    /\ idleRooms' = idleRooms \ {roomId}
    /\ IF roomId \notin DOMAIN rooms
       THEN /\ sent' = {Msg(c, "error", NoPid, "-")}
            /\ UNCHANGED <<rooms, ws, timers>>
       ELSE IF IsReconnect(c, roomId)
       THEN /\ sent' = {Msg(c, "roomJoined", ws[c].playerId, "-")}
            /\ UNCHANGED <<rooms, ws, timers>>
       ELSE LET playerId == NextPlayerId(rooms[roomId]) IN
            /\ playerId <= MaxPid
            /\ rooms' = [rooms EXCEPT ![roomId].clients = With(@, playerId, c)]
            /\ ws' = [ws EXCEPT ![c].roomId = roomId, ![c].playerId = playerId,
                                 ![c].isAlive = TRUE]
            /\ sent' = {Msg(c, "roomJoined", playerId, "-")}
                       \cup broadcastToRoom(rooms', roomId, "playerJoined", playerId, "-", playerId)
                       \cup broadcastRoomListUpdate(ws')
            /\ UNCHANGED timers

\* handleSelectSlot whose toggle-off clears every player's readiness
handleSelectSlotClearAll(c, roomId, playerId, slotNum) ==
    /\ IsOpen(c)
    /\ UNCHANGED <<ws, timers>>
    /\ idleRooms' = idleRooms \ {roomId}
    /\ IF roomId \notin DOMAIN rooms
       THEN /\ sent' = {}
            /\ UNCHANGED rooms
       ELSE LET room == rooms[roomId] IN
            IF playerId \in DOMAIN room.players /\ room.players[playerId] = slotNum
            THEN /\ rooms' = [rooms EXCEPT ![roomId].players = Without(@, playerId),
                                           ![roomId].readyStates =
                                               [q \in (DOMAIN @) \ {playerId} |-> FALSE]]
                 /\ sent' = broadcastToRoom(rooms', roomId, "slotSelected", playerId, "-", NoPid)
                            \cup broadcastRoomListUpdate(ws)
            ELSE IF \E p \in DOMAIN room.players : room.players[p] = slotNum
            THEN /\ sent' = {Msg(c, "error", NoPid, "-")}
                 /\ UNCHANGED rooms
            ELSE /\ rooms' = [rooms EXCEPT ![roomId].players = With(@, playerId, slotNum),
                                           ![roomId].readyStates = With(@, playerId, FALSE)]
                 /\ sent' = broadcastToRoom(rooms', roomId, "slotSelected", playerId, "-", NoPid)
                            \cup broadcastRoomListUpdate(ws)

\* handleSelectSlot that reports a taken seat to the whole room
handleSelectSlotErrorToRoom(c, roomId, playerId, slotNum) ==
    /\ IsOpen(c)
    /\ UNCHANGED <<ws, timers>>
    /\ idleRooms' = idleRooms \ {roomId}
    /\ IF roomId \notin DOMAIN rooms
       THEN /\ sent' = {}
            /\ UNCHANGED rooms
       ELSE LET room == rooms[roomId] IN
            IF playerId \in DOMAIN room.players /\ room.players[playerId] = slotNum
            THEN /\ rooms' = [rooms EXCEPT ![roomId].players = Without(@, playerId),
                                           ![roomId].readyStates = Without(@, playerId)]
                 /\ sent' = broadcastToRoom(rooms', roomId, "slotSelected", playerId, "-", NoPid)
                            \cup broadcastRoomListUpdate(ws)
            ELSE IF \E p \in DOMAIN room.players : room.players[p] = slotNum
            THEN /\ sent' = {Msg(c, "error", NoPid, "-")}
                            \cup broadcastToRoom(rooms, roomId, "error", NoPid, "-", NoPid)
                 /\ UNCHANGED rooms
            ELSE /\ rooms' = [rooms EXCEPT ![roomId].players = With(@, playerId, slotNum),
                                           ![roomId].readyStates = With(@, playerId, FALSE)]
                 /\ sent' = broadcastToRoom(rooms', roomId, "slotSelected", playerId, "-", NoPid)
                            \cup broadcastRoomListUpdate(ws)

\* handleSelectSlot without the slotTaken test
handleSelectSlotNoTakenTest(c, roomId, playerId, slotNum) ==
    /\ IsOpen(c)
    /\ UNCHANGED <<ws, timers>>
    /\ idleRooms' = idleRooms \ {roomId}
    /\ IF roomId \notin DOMAIN rooms
       THEN /\ sent' = {}
            /\ UNCHANGED rooms
       ELSE LET room == rooms[roomId] IN
            IF playerId \in DOMAIN room.players /\ room.players[playerId] = slotNum
            THEN /\ rooms' = [rooms EXCEPT ![roomId].players = Without(@, playerId),
                                           ![roomId].readyStates = Without(@, playerId)]
                 /\ sent' = broadcastToRoom(rooms', roomId, "slotSelected", playerId, "-", NoPid)
                            \cup broadcastRoomListUpdate(ws)
            ELSE /\ rooms' = [rooms EXCEPT ![roomId].players = With(@, playerId, slotNum),
                                           ![roomId].readyStates = With(@, playerId, FALSE)]
                 /\ sent' = broadcastToRoom(rooms', roomId, "slotSelected", playerId, "-", NoPid)
                            \cup broadcastRoomListUpdate(ws)

\* handleSelectSlot that keeps the readiness of a player who changes seat
handleSelectSlotKeepReady(c, roomId, playerId, slotNum) ==
    /\ IsOpen(c)
    /\ UNCHANGED <<ws, timers>>
    /\ idleRooms' = idleRooms \ {roomId}
    /\ IF roomId \notin DOMAIN rooms
       THEN /\ sent' = {}
            /\ UNCHANGED rooms
       ELSE LET room == rooms[roomId] IN
            IF playerId \in DOMAIN room.players /\ room.players[playerId] = slotNum
            THEN /\ rooms' = [rooms EXCEPT ![roomId].players = Without(@, playerId),
                                           ![roomId].readyStates = Without(@, playerId)]
                 /\ sent' = broadcastToRoom(rooms', roomId, "slotSelected", playerId, "-", NoPid)
                            \cup broadcastRoomListUpdate(ws)
            ELSE IF \E p \in DOMAIN room.players : room.players[p] = slotNum
            THEN /\ sent' = {Msg(c, "error", NoPid, "-")}
                 /\ UNCHANGED rooms
            ELSE /\ rooms' = [rooms EXCEPT ![roomId].players = With(@, playerId, slotNum),
                                           ![roomId].readyStates =
                                               IF playerId \in DOMAIN @ THEN @
                                               ELSE With(@, playerId, FALSE)]
                 /\ sent' = broadcastToRoom(rooms', roomId, "slotSelected", playerId, "-", NoPid)
                            \cup broadcastRoomListUpdate(ws)

\* handleSelectSlot(ws, data)
handleSelectSlot(c, roomId, playerId, slotNum) ==
    /\ IsOpen(c)
    /\ UNCHANGED <<ws, timers>>
    /\ idleRooms' = idleRooms \ {roomId}
    /\ IF roomId \notin DOMAIN rooms
       THEN /\ sent' = {}
            /\ UNCHANGED rooms
       ELSE LET room == rooms[roomId] IN
            IF playerId \in DOMAIN room.players /\ room.players[playerId] = slotNum
            THEN /\ rooms' = [rooms EXCEPT ![roomId].players = Without(@, playerId),
                                           ![roomId].readyStates = Without(@, playerId)]
                 /\ sent' = broadcastToRoom(rooms', roomId, "slotSelected", playerId, "-", NoPid)
                            \cup broadcastRoomListUpdate(ws)
            ELSE IF \E p \in DOMAIN room.players : room.players[p] = slotNum
            THEN /\ sent' = {Msg(c, "error", NoPid, "-")}
                 /\ UNCHANGED rooms
            ELSE /\ rooms' = [rooms EXCEPT ![roomId].players = With(@, playerId, slotNum),
                                           ![roomId].readyStates = With(@, playerId, FALSE)]
                 /\ sent' = broadcastToRoom(rooms', roomId, "slotSelected", playerId, "-", NoPid)
                            \cup broadcastRoomListUpdate(ws)

\* AllReady that looks at the seat-1 occupant only
AllReadySeat1Only(room) ==
    LET slot1Player == SlotPlayer(room, 1)
    IN IF slot1Player = 0 THEN "undefined"
       ELSE IF slot1Player \notin DOMAIN room.readyStates THEN "undefined"
       ELSE IF ~room.readyStates[slot1Player] THEN "false"
       ELSE "true"

\* allReady = slot1Player && slot2Player && readyStates[slot1Player] && readyStates[slot2Player]
\* (the same expression in both roomType branches).  The && chain yields the
\* first falsy operand: undefined when a seat is empty or an entry is
\* missing, false when an occupant is not ready, else the last operand.
AllReady(room) ==
    LET slot1Player == SlotPlayer(room, 1)
        slot2Player == SlotPlayer(room, 2)
    IN IF slot1Player = 0 \/ slot2Player = 0 THEN "undefined"
       ELSE IF slot1Player \notin DOMAIN room.readyStates THEN "undefined"
       ELSE IF ~room.readyStates[slot1Player] THEN "false"
       ELSE IF slot2Player \notin DOMAIN room.readyStates THEN "undefined"
       ELSE IF ~room.readyStates[slot2Player] THEN "false"
       ELSE "true"

\* handleToggleReady without the !room.players[playerId] test
handleToggleReadyNoSeatTest(c, roomId, playerId, isReady) ==
    /\ IsOpen(c)
    /\ UNCHANGED <<ws, timers>>
    /\ idleRooms' = idleRooms \ {roomId}
    /\ IF roomId \notin DOMAIN rooms
       THEN /\ sent' = {}
            /\ UNCHANGED rooms
       ELSE /\ rooms' = [rooms EXCEPT ![roomId].readyStates = With(@, playerId, isReady)]
            /\ sent' = broadcastToRoom(rooms', roomId, "playerReady", playerId,
                                       AllReady(rooms'[roomId]), NoPid)

\* handleToggleReady(ws, data)
handleToggleReady(c, roomId, playerId, isReady) ==
    /\ IsOpen(c)
    /\ UNCHANGED <<ws, timers>>
    /\ idleRooms' = idleRooms \ {roomId}
    /\ IF roomId \notin DOMAIN rooms \/ playerId \notin DOMAIN rooms[roomId].players
       THEN /\ sent' = {}
            /\ UNCHANGED rooms
       ELSE /\ rooms' = [rooms EXCEPT ![roomId].readyStates = With(@, playerId, isReady)]
            /\ sent' = broadcastToRoom(rooms', roomId, "playerReady", playerId,
                                       AllReady(rooms'[roomId]), NoPid)

\* BothReady that looks at the seat-1 occupant only
BothReadySeat1Only(room) ==
    LET slot1Player == SlotPlayer(room, 1)
    IN slot1Player # 0 /\ slot1Player \in room.setupComplete

\* bothReady = slot1Player && slot2Player && setupComplete[slot1Player] && setupComplete[slot2Player]
BothReady(room) ==
    LET slot1Player == SlotPlayer(room, 1)
        slot2Player == SlotPlayer(room, 2)
    IN /\ slot1Player # 0
       /\ slot2Player # 0
       /\ slot1Player \in room.setupComplete
       /\ slot2Player \in room.setupComplete

\* handleSetupComplete(data)
handleSetupComplete(c, roomId, playerId) ==
    /\ IsOpen(c)
    /\ UNCHANGED <<ws, timers>>
    /\ idleRooms' = idleRooms \ {roomId}
    /\ IF roomId \notin DOMAIN rooms
       THEN /\ sent' = {}
            /\ UNCHANGED rooms
       ELSE /\ rooms' = [rooms EXCEPT ![roomId].setupComplete = @ \cup {playerId}]
            /\ sent' = broadcastToRoom(rooms', roomId, "opponentSetupComplete", playerId, "-", playerId)
                       \cup (IF BothReady(rooms'[roomId])
                             THEN broadcastToRoom(rooms', roomId, "bothPlayersReady", NoPid, "-", NoPid)
                             ELSE {})

\* handleMove(data)
handleMove(c, roomId) ==
    /\ IsOpen(c)
    /\ sent' = broadcastToRoom(rooms, roomId, "move", NoPid, "-", NoPid)
    /\ idleRooms' = idleRooms \ {roomId}
    /\ UNCHANGED <<rooms, ws, timers>>

\* handleGameEnd(data): broadcast, then setTimeout(..., 5000)
handleGameEnd(c, roomId) ==
    /\ IsOpen(c)
    /\ timers[roomId] < MaxTimers
    /\ sent' = broadcastToRoom(rooms, roomId, "gameEnd", NoPid, "-", NoPid)
    /\ timers' = [timers EXCEPT ![roomId] = @ + 1]
    /\ idleRooms' = idleRooms \ {roomId}
    /\ UNCHANGED <<rooms, ws>>

\* The timer callback without rooms.delete(roomId)
GameEndTimerNoDelete(roomId) ==
    /\ timers[roomId] > 0
    /\ timers' = [timers EXCEPT ![roomId] = @ - 1]
    /\ sent' = broadcastRoomListUpdate(ws)
    /\ UNCHANGED <<rooms, ws, idleRooms>>

\* the setTimeout callback of handleGameEnd
GameEndTimer(roomId) ==
    /\ timers[roomId] > 0
    /\ timers' = [timers EXCEPT ![roomId] = @ - 1]
    /\ rooms' = Without(rooms, roomId)
    /\ idleRooms' = idleRooms \ {roomId}
    /\ sent' = broadcastRoomListUpdate(ws)
    /\ UNCHANGED ws

\* Leave without the host transfer
LeaveKeepHost(room, leavingPlayerId) ==
    [roomType |-> room.roomType,
     players |-> Without(room.players, leavingPlayerId),
     clients |-> Without(room.clients, leavingPlayerId),
     readyStates |-> Without(room.readyStates, leavingPlayerId),
     setupComplete |-> room.setupComplete \ {leavingPlayerId},
     hostId |-> room.hostId]

\* Leave with the host handed to the largest remaining player id
LeaveMaxHost(room, leavingPlayerId) ==
    LET clients == Without(room.clients, leavingPlayerId)
    IN [roomType |-> room.roomType,
        players |-> Without(room.players, leavingPlayerId),
        clients |-> clients,
        readyStates |-> Without(room.readyStates, leavingPlayerId),
        setupComplete |-> room.setupComplete \ {leavingPlayerId},
        hostId |-> IF room.hostId = leavingPlayerId /\ DOMAIN clients # {}
                   THEN CHOOSE x \in DOMAIN clients : \A y \in DOMAIN clients : x >= y
                   ELSE room.hostId]

\* The room after handleDisconnect removed leavingPlayerId and moved the host
Leave(room, leavingPlayerId) ==
    LET clients == Without(room.clients, leavingPlayerId)
    IN [roomType |-> room.roomType,
        players |-> Without(room.players, leavingPlayerId),
        clients |-> clients,
        readyStates |-> Without(room.readyStates, leavingPlayerId),
        setupComplete |-> room.setupComplete \ {leavingPlayerId},
        hostId |-> IF room.hostId = leavingPlayerId /\ DOMAIN clients # {}
                   THEN Min(DOMAIN clients)
                   ELSE room.hostId]

\* handleDisconnect without the deletion of the emptied room
handleDisconnectKeepEmpty(c) ==
    /\ ws[c].state \in {"open", "closing"}
    /\ ws' = [ws EXCEPT ![c].state = "closed"]
    /\ UNCHANGED timers
    /\ IF ws[c].roomId = NoRoom \/ ws[c].playerId = NoPid \/ ws[c].roomId \notin DOMAIN rooms
       THEN /\ sent' = {}
            /\ UNCHANGED <<rooms, idleRooms>>
       ELSE LET roomId == ws[c].roomId
                left == Leave(rooms[roomId], ws[c].playerId)
            IN /\ rooms' = [rooms EXCEPT ![roomId] = left]
               /\ idleRooms' = idleRooms \ {roomId}
               /\ sent' = { Msg(left.clients[p], "playerLeft", ws[c].playerId, "-") :
                              p \in { q \in DOMAIN left.clients : ws'[left.clients[q]].state = "open" } }
                          \cup broadcastRoomListUpdate(ws')

\* ws.on('close'), after the client closed the socket or ws.terminate()
\* destroyed it: the socket is no longer OPEN, then handleDisconnect(ws)
handleDisconnect(c) ==
    /\ ws[c].state \in {"open", "closing"}
    /\ ws' = [ws EXCEPT ![c].state = "closed"]
    /\ UNCHANGED timers
    /\ IF ws[c].roomId = NoRoom \/ ws[c].playerId = NoPid \/ ws[c].roomId \notin DOMAIN rooms
       THEN /\ sent' = {}
            /\ UNCHANGED <<rooms, idleRooms>>
       ELSE LET roomId == ws[c].roomId
                left == Leave(rooms[roomId], ws[c].playerId)
                after == [rooms EXCEPT ![roomId] = left]
            IN /\ rooms' = IF DOMAIN left.clients = {} THEN Without(rooms, roomId) ELSE after
               /\ idleRooms' = idleRooms \ {roomId}
               /\ sent' = { Msg(left.clients[p], "playerLeft", ws[c].playerId, "-") :
                              p \in { q \in DOMAIN left.clients : ws'[left.clients[q]].state = "open" } }
                          \cup broadcastRoomListUpdate(ws')

\* The idle threshold (30 minutes) passes without a message for roomId:
\* now - room.lastActivity > 30 * 60 * 1000 becomes true.  No callback runs.
Age(roomId) ==
    /\ roomId \in DOMAIN rooms
    /\ roomId \notin idleRooms
    /\ idleRooms' = idleRooms \cup {roomId}
    /\ UNCHANGED <<rooms, ws, timers, sent>>

\* The sweep without the hasPlayers test
SweepNoPlayersTest ==
    LET dead == { r \in DOMAIN rooms : r \in idleRooms }
    IN /\ rooms' = [r \in (DOMAIN rooms) \ dead |-> rooms[r]]
       /\ idleRooms' = idleRooms \ dead
       /\ sent' = {}
       /\ UNCHANGED <<ws, timers>>

\* The setInterval callback that cleans up inactive rooms
Sweep ==
    LET dead == { r \in DOMAIN rooms : r \in idleRooms /\ DOMAIN rooms[r].clients = {} }
    IN /\ rooms' = [r \in (DOMAIN rooms) \ dead |-> rooms[r]]
       /\ idleRooms' = idleRooms \ dead
       /\ sent' = {}
       /\ UNCHANGED <<ws, timers>>

\* The heartbeat that only resets the flags and never terminates
HeartbeatNoTerminate ==
    /\ ws' = [c \in Conns |->
                IF ws[c].state # "open" THEN ws[c]
                ELSE [ws[c] EXCEPT !.isAlive = FALSE]]
    /\ sent' = {}
    /\ UNCHANGED <<rooms, timers, idleRooms>>

\* The heartbeat setInterval callback, over wss.clients: terminate() leaves
\* the socket not OPEN with its close event pending ("closing"); ping frames
\* are not messages of the protocol and are not recorded in sent.
Heartbeat ==
    /\ ws' = [c \in Conns |->
                IF ws[c].state # "open" THEN ws[c]
                ELSE IF ~ws[c].isAlive THEN [ws[c] EXCEPT !.state = "closing"]
                ELSE [ws[c] EXCEPT !.isAlive = FALSE]]
    /\ sent' = {}
    /\ UNCHANGED <<rooms, timers, idleRooms>>

\* ws.on('pong')
Pong(c) ==
    /\ IsOpen(c)
    /\ ws' = [ws EXCEPT ![c].isAlive = TRUE]
    /\ sent' = {}
    /\ UNCHANGED <<rooms, timers, idleRooms>>

\* ------------------------------------------------- specifications
\* Every handler, every input.
Next ==
    \/ \E c \in Conns : Connect(c)
    \/ \E c \in Conns, t \in RoomTypes, r \in RoomIds : handleCreateRoom(c, t, r)
    \/ \E c \in Conns, r \in RoomIds : handleJoin(c, r)
    \/ \E c \in Conns, r \in RoomIds, p \in MsgPids, s \in Slots : handleSelectSlot(c, r, p, s)
    \/ \E c \in Conns, r \in RoomIds, p \in MsgPids, b \in BOOLEAN : handleToggleReady(c, r, p, b)
    \/ \E c \in Conns, r \in RoomIds, p \in MsgPids : handleSetupComplete(c, r, p)
    \/ \E c \in Conns, r \in RoomIds : handleMove(c, r)
    \/ \E c \in Conns, r \in RoomIds : handleGameEnd(c, r)
    \/ \E r \in RoomIds : GameEndTimer(r)
    \/ \E c \in Conns : handleDisconnect(c)
    \/ \E r \in RoomIds : Age(r)
    \/ Sweep
    \/ Heartbeat
    \/ \E c \in Conns : Pong(c)

Spec == Init /\ [][Next]_vars

\* The focused specifications below run the same handlers under narrower
\* environments, so that TLC can enumerate them.  Each one leaves out only
\* handlers that write none of the fields its properties read.

\* The room id every connection may address; only Roamers also address the
\* other ids.
HomeRoom == "R1"
Roamers == {"c1"}
Addr(c) == IF c \in Roamers THEN RoomIds ELSE {HomeRoom}
\* The connections of the one-room seating environments
Pair == {"c1", "c2"}

\* Registry traffic: create, join, close.  Three connections; c1 also
\* creates and joins a second room.
NextRegistry ==
    \/ \E c \in Conns : Connect(c)
    \/ \E c \in Conns, t \in RoomTypes : \E r \in Addr(c) : handleCreateRoom(c, t, r)
    \/ \E c \in Conns : \E r \in Addr(c) : handleJoin(c, r)
    \/ \E c \in Conns : handleDisconnect(c)

SpecRegistry == Init /\ [][NextRegistry]_vars

\* Registry traffic plus move and gameEnd on one room id.
NextGameEnd ==
    \/ \E c \in Conns : Connect(c)
    \/ \E c \in Conns, t \in RoomTypes : handleCreateRoom(c, t, HomeRoom)
    \/ \E c \in Conns : handleJoin(c, HomeRoom)
    \/ \E c \in Conns : handleMove(c, HomeRoom)
    \/ \E c \in Conns : handleGameEnd(c, HomeRoom)
    \/ GameEndTimer(HomeRoom)
    \/ \E c \in Conns : handleDisconnect(c)

SpecGameEnd == Init /\ [][NextGameEnd]_vars

\* Node's event loop runs every timer that is due.
FairGameEnd == SpecGameEnd /\ WF_vars(GameEndTimer(HomeRoom))

\* Seating and readiness on one room id, two connections; playerId and
\* slotNum are whatever the client puts in the message.
NextSeats ==
    \/ \E c \in Pair : Connect(c)
    \/ \E c \in Pair, t \in RoomTypes : handleCreateRoom(c, t, HomeRoom)
    \/ \E c \in Pair : handleJoin(c, HomeRoom)
    \/ \E c \in Pair, p \in MsgPids, s \in Slots : handleSelectSlot(c, HomeRoom, p, s)
    \/ \E c \in Pair, p \in MsgPids, b \in BOOLEAN : handleToggleReady(c, HomeRoom, p, b)
    \/ \E c \in Pair : handleDisconnect(c)

SpecSeats == Init /\ [][NextSeats]_vars

\* Seating and setup completion on one room id, two connections.
NextSetup ==
    \/ \E c \in Pair : Connect(c)
    \/ \E c \in Pair, t \in RoomTypes : handleCreateRoom(c, t, HomeRoom)
    \/ \E c \in Pair : handleJoin(c, HomeRoom)
    \/ \E c \in Pair, p \in MsgPids, s \in Slots : handleSelectSlot(c, HomeRoom, p, s)
    \/ \E c \in Pair, p \in MsgPids : handleSetupComplete(c, HomeRoom, p)
    \/ \E c \in Pair : handleDisconnect(c)

SpecSetup == Init /\ [][NextSetup]_vars

\* Registry traffic of two connections, the passing of time and the idle
\* sweep; c1 also creates and joins a second room.
NextSweep ==
    \/ \E c \in Pair : Connect(c)
    \/ \E c \in Pair, t \in RoomTypes : \E r \in Addr(c) : handleCreateRoom(c, t, r)
    \/ \E c \in Pair : \E r \in Addr(c) : handleJoin(c, r)
    \/ \E c \in Pair : handleDisconnect(c)
    \/ \E r \in RoomIds : Age(r)
    \/ Sweep

SpecSweep == Init /\ [][NextSweep]_vars

\* Time passes and the sweep interval keeps firing.
FairSweep ==
    /\ SpecSweep
    /\ \A r \in RoomIds : WF_vars(Age(r))
    /\ WF_vars(Sweep)

\* Registry traffic of two connections on one room id, the heartbeat and
\* the clients' pongs.
NextHeartbeat ==
    \/ \E c \in Pair : Connect(c)
    \/ \E c \in Pair, t \in RoomTypes : handleCreateRoom(c, t, HomeRoom)
    \/ \E c \in Pair : handleJoin(c, HomeRoom)
    \/ \E c \in Pair : handleDisconnect(c)
    \/ Heartbeat
    \/ \E c \in Pair : Pong(c)

SpecHeartbeat == Init /\ [][NextHeartbeat]_vars

\* The close event of a terminated socket is delivered.
FairHeartbeat ==
    /\ SpecHeartbeat
    /\ \A c \in Pair : WF_vars(ws[c].state = "closing" /\ handleDisconnect(c))

\* ------------------------------------------------------------ properties
\* const maxPlayers = room.roomType === '3player' ? 3 : 2;
Capacity(roomType) == IF roomType = "3player" THEN 3 ELSE 2

\* Connection c is a value of the room's connections map
Tracked(c, room) == \E p \in DOMAIN room.clients : room.clients[p] = c

\* The open connections stored in the room's connections map
OpenOccupants(room) ==
    { room.clients[p] : p \in { q \in DOMAIN room.clients : IsOpen(room.clients[q]) } }

\* The types of the messages in a set of sent messages
Types(S) == { m.type : m \in S }

\* C1: a join to a room whose connections map is at the capacity of its
\* room type, by a connection not tracked in it, sends only an error to the
\* joiner and leaves the connections map as it was.
JoinAtCapacityRejected ==
    [][\A c \in Conns, r \in RoomIds :
         (/\ r \in DOMAIN rooms
          /\ Cardinality(DOMAIN rooms[r].clients) >= Capacity(rooms[r].roomType)
          /\ ~Tracked(c, rooms[r])
          /\ handleJoin(c, r))
         => (/\ sent' = {Msg(c, "error", NoPid, "-")}
             /\ rooms'[r].clients = rooms[r].clients)]_vars

\* C2: in every room the seats map assigns pairwise distinct seat numbers.
SeatsDistinct ==
    \A r \in DOMAIN rooms :
        \A p, q \in DOMAIN rooms[r].players :
            p # q => rooms[r].players[p] # rooms[r].players[q]

\* Two players are seated and one of them has just taken or changed a seat.
SeatsDistinctWitness ==
    /\ HomeRoom \in DOMAIN rooms
    /\ Cardinality(DOMAIN rooms[HomeRoom].players) = 2
    /\ "slotSelected" \in Types(sent)

\* C3: every room in the registry has a non-empty connections map.
NoEmptyRoom ==
    \A r \in DOMAIN rooms : DOMAIN rooms[r].clients # {}

\* The creator of a room closed as its only occupant (no seat was ever
\* taken) and the room is gone from the registry.
NoEmptyRoomWitness ==
    \E c \in Conns :
        /\ ws[c].state = "closed"
        /\ ws[c].roomId = HomeRoom
        /\ ws[c].playerId = 1
        /\ HomeRoom \notin DOMAIN rooms
        /\ \A d \in Conns \ {c} : ws[d].roomId = NoRoom

\* C4: hostId is a key of the connections map of every room whose
\* connections map is non-empty.
HostIsConnected ==
    \A r \in DOMAIN rooms :
        DOMAIN rooms[r].clients # {} => rooms[r].hostId \in DOMAIN rooms[r].clients

\* The creator (player 1) has left and another player is host.
HostIsConnectedWitness ==
    \E r \in DOMAIN rooms :
        /\ rooms[r].hostId # 1
        /\ 1 \notin DOMAIN rooms[r].clients
        /\ "playerLeft" \in Types(sent)

\* C5: when the host's connection closes and a connection remains, hostId
\* becomes the smallest remaining player id; when another connection
\* closes, hostId does not change.
HostMigration ==
    [][\A c \in Conns :
         (/\ ws[c].roomId \in DOMAIN rooms
          /\ ws[c].playerId # NoPid
          /\ handleDisconnect(c)
          /\ ws[c].roomId \in DOMAIN rooms')
         => LET r == ws[c].roomId
                remaining == DOMAIN rooms[r].clients \ {ws[c].playerId}
            IN IF rooms[r].hostId = ws[c].playerId
               THEN remaining # {} =>
                      /\ rooms'[r].hostId \in remaining
                      /\ \A q \in remaining : rooms'[r].hostId <= q
               ELSE rooms'[r].hostId = rooms[r].hostId]_vars

\* Host 1 closed while players 2 and 3 stayed; player 2 is host.
HostMigrationWitness ==
    \E r \in DOMAIN rooms :
        /\ DOMAIN rooms[r].clients = {2, 3}
        /\ rooms[r].hostId = 2
        /\ \E m \in sent : m.type = "playerLeft" /\ m.playerId = 1

\* C6: a join by a connection whose identity is (roomId, playerId) for that
\* room, with playerId still a key of the room's connections, changes no
\* room and no identity, and sends exactly one message: the snapshot, to
\* that connection (so no playerJoined and no new player id).
RejoinIsIdempotent ==
    [][\A c \in Conns, r \in RoomIds :
         (/\ r \in DOMAIN rooms
          /\ ws[c].roomId = r
          /\ ws[c].playerId # NoPid
          /\ ws[c].playerId \in DOMAIN rooms[r].clients
          /\ handleJoin(c, r))
         => (/\ rooms' = rooms
             /\ ws' = ws
             /\ sent' = {Msg(c, "roomJoined", ws[c].playerId, "-")})]_vars

\* Connection c got only its snapshot although another open connection d
\* sits in the same room: a first join would have sent d playerJoined.
RejoinWitness ==
    \E c \in Conns, d \in Conns, r \in DOMAIN rooms :
        /\ c # d
        /\ ws[c].roomId = r
        /\ ws[d].roomId = r
        /\ IsOpen(d)
        /\ ws[c].playerId \in DOMAIN rooms[r].clients
        /\ ws[d].playerId \in DOMAIN rooms[r].clients
        /\ rooms[r].clients[ws[c].playerId] = c
        /\ rooms[r].clients[ws[d].playerId] = d
        /\ sent = {Msg(c, "roomJoined", ws[c].playerId, "-")}

\* Seats 1 and 2 are both occupied and both occupants' readiness is true
CombatSeatsReady(room) ==
    \E p1, p2 \in DOMAIN room.players :
        /\ room.players[p1] = 1
        /\ room.players[p2] = 2
        /\ p1 \in DOMAIN room.readyStates
        /\ p2 \in DOMAIN room.readyStates
        /\ room.readyStates[p1]
        /\ room.readyStates[p2]

\* C7: every playerReady message of a toggleReady carries allReady true
\* exactly when seats 1 and 2 are occupied and both occupants are ready, in
\* rooms of either type; setting the readiness of a seat-1 or seat-2
\* occupant to false never yields allReady true.
AllReadyIffCombatSeatsReady ==
    [][\A c \in Conns, r \in RoomIds, p \in MsgPids, b \in BOOLEAN :
         (/\ r \in DOMAIN rooms
          /\ p \in DOMAIN rooms[r].players
          /\ handleToggleReady(c, r, p, b))
         => \A m \in sent' :
              /\ m.type = "playerReady"
              /\ (m.allReady = "true") <=> CombatSeatsReady(rooms'[r])
              /\ (~b /\ rooms[r].players[p] \in {1, 2}) => m.allReady # "true"]_vars

\* A playerReady with allReady true was sent in a three-seat room whose
\* third seat is taken by a player who is not ready.
AllReadyWitness ==
    /\ \E m \in sent : m.type = "playerReady" /\ m.allReady = "true"
    /\ HomeRoom \in DOMAIN rooms
    /\ rooms[HomeRoom].roomType = "3player"
    /\ \E p \in DOMAIN rooms[HomeRoom].players :
          rooms[HomeRoom].players[p] = 3 /\ ~rooms[HomeRoom].readyStates[p]

\* C8: selectSlot for the seat the player holds removes that player's seat
\* and readiness entries and leaves every other player's entries as they
\* were.
ToggleOffFrame ==
    [][\A c \in Conns, r \in RoomIds, p \in MsgPids, s \in Slots :
         (/\ r \in DOMAIN rooms
          /\ p \in DOMAIN rooms[r].players
          /\ rooms[r].players[p] = s
          /\ handleSelectSlot(c, r, p, s))
         => (/\ DOMAIN rooms'[r].players = DOMAIN rooms[r].players \ {p}
             /\ DOMAIN rooms'[r].readyStates = DOMAIN rooms[r].readyStates \ {p}
             /\ \A q \in DOMAIN rooms'[r].players :
                    rooms'[r].players[q] = rooms[r].players[q]
             /\ \A q \in DOMAIN rooms'[r].readyStates :
                    rooms'[r].readyStates[q] = rooms[r].readyStates[q])]_vars

\* A player has just given up a seat (slotSelected names a player who holds
\* none) while another player stays seated and ready.
ToggleOffWitness ==
    /\ HomeRoom \in DOMAIN rooms
    /\ \E m \in sent :
          /\ m.type = "slotSelected"
          /\ m.playerId \notin DOMAIN rooms[HomeRoom].players
          /\ m.playerId \notin DOMAIN rooms[HomeRoom].readyStates
    /\ \E q \in DOMAIN rooms[HomeRoom].readyStates : rooms[HomeRoom].readyStates[q]

\* C9: a gameEnd message for a room is sent at once to every open occupant
\* of the room, and once its timer is pending the room id is eventually
\* absent from the registry, whatever is handled in between.
GameEndDeletesRoom ==
    /\ [][\A c \in Conns, r \in RoomIds :
            (r \in DOMAIN rooms /\ handleGameEnd(c, r))
            => sent' = { Msg(d, "gameEnd", NoPid, "-") : d \in OpenOccupants(rooms[r]) }]_vars
    /\ \A r \in RoomIds : (timers[r] > 0) ~> (r \notin DOMAIN rooms)

\* The timer has fired: no connection ever closed, an open connection still
\* carries the room id, and the room is gone.
GameEndWitness ==
    /\ \A d \in Conns : ws[d].state # "closed"
    /\ \E c \in Conns : IsOpen(c) /\ ws[c].roomId = HomeRoom
    /\ HomeRoom \notin DOMAIN rooms
    /\ timers[HomeRoom] = 0

\* The seat-1 and seat-2 occupants both have their setupComplete flag
CombatSetupDone(room) ==
    \E p1, p2 \in DOMAIN room.players :
        /\ room.players[p1] = 1
        /\ room.players[p2] = 2
        /\ p1 \in room.setupComplete
        /\ p2 \in room.setupComplete

\* The recipients of the bothPlayersReady messages in a set of sent messages
GateRecipients(S) == { m.to : m \in { x \in S : x.type = "bothPlayersReady" } }

\* C10 as stated: once bothPlayersReady has been broadcast, a further
\* setupComplete message does not broadcast it again.
BothPlayersReadyOnce ==
    [][\A c \in Conns, r \in RoomIds, p \in MsgPids :
         (GateRecipients(sent) # {} /\ handleSetupComplete(c, r, p))
         => GateRecipients(sent') = {}]_vars

\* C10 as amended: a setupComplete message broadcasts bothPlayersReady to
\* every open occupant exactly when, with its flag set, the seat-1 and
\* seat-2 occupants both have setupComplete; every message handled while
\* that holds broadcasts it again.
BothPlayersReadyWhenSetupDone ==
    [][\A c \in Conns, r \in RoomIds, p \in MsgPids :
         (r \in DOMAIN rooms /\ handleSetupComplete(c, r, p))
         => GateRecipients(sent') =
              IF CombatSetupDone(rooms'[r]) THEN OpenOccupants(rooms'[r]) ELSE {}]_vars

\* bothPlayersReady went out on the setupComplete of a player who holds no
\* seat.
BothPlayersReadyWitness ==
    /\ HomeRoom \in DOMAIN rooms
    /\ GateRecipients(sent) # {}
    /\ \E m \in sent :
          /\ m.type = "opponentSetupComplete"
          /\ m.playerId \notin DOMAIN rooms[HomeRoom].players

\* The recipients of the messages of one type in a set of sent messages
Recipients(S, type) == { m.to : m \in { x \in S : x.type = type } }

\* C11: a move message goes to every open connection of the addressed room
\* except the connection that sent it.
MoveExcludesSender ==
    [][\A c \in Conns, r \in RoomIds :
         (r \in DOMAIN rooms /\ handleMove(c, r))
         => Recipients(sent', "move") = OpenOccupants(rooms[r]) \ {c}]_vars

\* C12: a selectSlot from a connection that is not stored in the addressed
\* room's connections changes no seat or readiness entry and broadcasts no
\* slotSelected.
SelectSlotNeedsJoin ==
    [][\A c \in Conns, r \in RoomIds, p \in MsgPids, s \in Slots :
         (/\ r \in DOMAIN rooms
          /\ ~Tracked(c, rooms[r])
          /\ handleSelectSlot(c, r, p, s))
         => (/\ rooms'[r].players = rooms[r].players
             /\ rooms'[r].readyStates = rooms[r].readyStates
             /\ "slotSelected" \notin Types(sent'))]_vars

\* C13: a selectSlot for a seat held by a different player sends one error
\* message, to the requester, and leaves seats and readiness as they were.
SeatTakenIsPrivate ==
    [][\A c \in Conns, r \in RoomIds, p \in MsgPids, s \in Slots :
         (/\ r \in DOMAIN rooms
          /\ \E q \in DOMAIN rooms[r].players : q # p /\ rooms[r].players[q] = s
          /\ handleSelectSlot(c, r, p, s))
         => (/\ sent' = {Msg(c, "error", NoPid, "-")}
             /\ rooms'[r].players = rooms[r].players
             /\ rooms'[r].readyStates = rooms[r].readyStates)]_vars

\* The room exists with a taken seat and two open occupants, and the last
\* handler sent a single error: only a refused selectSlot does that while
\* the room is in the registry.
SeatTakenWitness ==
    /\ HomeRoom \in DOMAIN rooms
    /\ DOMAIN rooms[HomeRoom].players # {}
    /\ \A d \in Pair : IsOpen(d) /\ Tracked(d, rooms[HomeRoom])
    /\ \E c \in Pair : sent = {Msg(c, "error", NoPid, "-")}

\* C14: a toggleReady for a player id that holds no seat sends nothing and
\* leaves the readiness map as it was.
ToggleReadyNeedsSeat ==
    [][\A c \in Conns, r \in RoomIds, p \in MsgPids, b \in BOOLEAN :
         (/\ r \in DOMAIN rooms
          /\ p \notin DOMAIN rooms[r].players
          /\ handleToggleReady(c, r, p, b))
         => (/\ sent' = {}
             /\ rooms'[r].readyStates = rooms[r].readyStates)]_vars

\* Both connections are open occupants of the room, a seat is taken, and
\* the last handler sent nothing: every other handler of this environment
\* sends at least one message to an open occupant in such a state.
ToggleReadyNeedsSeatWitness ==
    /\ HomeRoom \in DOMAIN rooms
    /\ DOMAIN rooms[HomeRoom].players # {}
    /\ \A d \in Pair : IsOpen(d) /\ ws[d].roomId = HomeRoom /\ Tracked(d, rooms[HomeRoom])
    /\ sent = {}

\* The smallest positive integer that is not a key of the room's
\* connections map
SmallestUnusedId(room) ==
    Min({ p \in 1..(MaxPid + 1) : p \notin DOMAIN room.clients })

\* C15: a join that is not a reconnect stores the joiner under the smallest
\* positive integer that is not a key of the connections map, attaches
\* (room, id) to it, sends it roomJoined, and sends playerJoined to every
\* other open connection of the room and not to the joiner; a join to an
\* absent room id sends the joiner an error and leaves the registry alone.
JoinAssignsSmallestId ==
    [][\A c \in Conns, r \in RoomIds :
         handleJoin(c, r) =>
           IF r \notin DOMAIN rooms
           THEN sent' = {Msg(c, "error", NoPid, "-")} /\ rooms' = rooms
           ELSE \/ /\ ws[c].playerId # NoPid
                   /\ ws[c].roomId = r
                   /\ ws[c].playerId \in DOMAIN rooms[r].clients
                \/ LET p == SmallestUnusedId(rooms[r]) IN
                   /\ rooms'[r].clients = With(rooms[r].clients, p, c)
                   /\ ws'[c].roomId = r /\ ws'[c].playerId = p
                   /\ Msg(c, "roomJoined", p, "-") \in sent'
                   /\ Recipients(sent', "playerJoined") = OpenOccupants(rooms[r]) \ {c}]_vars

\* C16: createRoom registers the new room under an id that is not a key of
\* the registry, whatever id the generation yields.
CreateRoomIdIsFresh ==
    [][\A c \in Conns, t \in RoomTypes, r \in RoomIds :
         handleCreateRoom(c, t, r) => r \notin DOMAIN rooms]_vars

\* C19: every connection stored under player id p in room r carries the
\* identity (r, p), so no connection is stored in two rooms or under two ids.
IdentityMatchesRegistry ==
    \A r \in DOMAIN rooms : \A p \in DOMAIN rooms[r].clients :
        /\ ws[rooms[r].clients[p]].roomId = r
        /\ ws[rooms[r].clients[p]].playerId = p

\* C17: the sweep removes a room from the registry only if its lastActivity
\* is older than the idle threshold and its connections map is empty; every
\* other room, in particular every room with a connection, is kept as it is.
SweepKeepsOccupiedRooms ==
    [][Sweep =>
         \A r \in DOMAIN rooms :
            IF r \in idleRooms /\ DOMAIN rooms[r].clients = {}
            THEN r \notin DOMAIN rooms'
            ELSE r \in DOMAIN rooms' /\ rooms'[r] = rooms[r]]_vars

\* A room past the idle threshold, with both connections open and stored in
\* it, is in the registry after a callback that sent nothing.
SweepWitness ==
    /\ HomeRoom \in DOMAIN rooms
    /\ HomeRoom \in idleRooms
    /\ \A d \in Pair : IsOpen(d) /\ ws[d].roomId = HomeRoom /\ Tracked(d, rooms[HomeRoom])
    /\ sent = {}

\* C18: a heartbeat tick terminates every open connection whose flag is
\* false and resets the flag of every other open connection; nothing else
\* terminates a connection, so one that pongs between ticks is kept; and a
\* terminated connection gets its disconnect handling.
HeartbeatTerminatesSilent ==
    /\ [][/\ Heartbeat =>
               \A c \in Conns :
                  IF IsOpen(c)
                  THEN IF ws[c].isAlive
                       THEN ws'[c].state = "open" /\ ~ws'[c].isAlive
                       ELSE ws'[c].state = "closing"
                  ELSE ws'[c] = ws[c]
          /\ \A c \in Conns :
               (ws[c].state # "closing" /\ ws'[c].state = "closing")
               => (IsOpen(c) /\ ~ws[c].isAlive)]_vars
    /\ \A c \in Pair : (ws[c].state = "closing") ~> (ws[c].state = "closed")

\* A connection stored in the room has been terminated by the heartbeat
\* while the other one, which ponged, is still open.
HeartbeatWitness ==
    \E c, d \in Pair :
        /\ ws[c].state = "closing"
        /\ HomeRoom \in DOMAIN rooms
        /\ Tracked(c, rooms[HomeRoom])
        /\ IsOpen(d) /\ ws[d].isAlive

\* Every connection has closed, or never connected, and its close event
\* has been handled
AllGone == \A c \in Conns : ws[c].state \in {"idle", "closed"}

\* C20: once every connection has closed and its close event has been
\* handled, every room still in the registry is eventually absent from it.
NoRoomLeaked ==
    \A r \in RoomIds : (AllGone /\ r \in DOMAIN rooms) ~> (r \notin DOMAIN rooms)

\* C21: in every room the player ids with a readiness entry are the player
\* ids with a seat entry, so no player without a seat is recorded as ready;
\* and a selectSlot that moves a seated player to a different free seat
\* leaves that player seated there and not ready.
ReadinessFollowsSeats ==
    /\ [](\A r \in DOMAIN rooms :
            DOMAIN rooms[r].readyStates = DOMAIN rooms[r].players)
    /\ [][\A c \in Conns, r \in RoomIds, p \in MsgPids, s \in Slots :
            (/\ r \in DOMAIN rooms
             /\ p \in DOMAIN rooms[r].players
             /\ rooms[r].players[p] # s
             /\ \A q \in DOMAIN rooms[r].players : rooms[r].players[q] # s
             /\ handleSelectSlot(c, r, p, s))
            => (/\ rooms'[r].players[p] = s
                /\ rooms'[r].readyStates[p] = FALSE)]_vars

\* Two players are seated, one ready, and the last handler announced the
\* seat of the other, who is not ready.
ReadinessFollowsSeatsWitness ==
    /\ HomeRoom \in DOMAIN rooms
    /\ \E p, q \in DOMAIN rooms[HomeRoom].players :
         /\ p # q
         /\ rooms[HomeRoom].readyStates[p] = TRUE
         /\ rooms[HomeRoom].readyStates[q] = FALSE
         /\ \E m \in sent : m.type = "slotSelected" /\ m.playerId = q
====
